---------------------------- MODULE Spec2Model ----------------------------
(***************************************************************************)
(* A model of RedisCopyDatabase.py: the wire codec (ProtocolHandler), the  *)
(* command dispatcher and key-value store (Server.get_response and the six *)
(* commands), and the per-connection loop (Server.connection_handler).     *)
(*                                                                         *)
(* Bytes are one-character strings and a byte string is a sequence of      *)
(* them.  Only ASCII bytes are modelled, so bytes.decode() / str.encode()  *)
(* map a byte string to the text with the same characters.                 *)
(*                                                                         *)
(* A Python value the decoder can produce is a record [t, v]:              *)
(*    None -> Null        int -> Integer(n)     str -> Str(chars)            *)
(*    Error(message) -> Error(chars)            list -> Arr(<<values>>)      *)
(*    dict -> Dict(<<<<key, value>>, ...>>)   (insertion order, keys       *)
(*                                             pairwise different)         *)
(***************************************************************************)
EXTENDS Integers, Sequences, FiniteSets, TLC

VARIABLES
    kv,       \* Server._kv: the shared store, a function from keys to values
    state,    \* per connection: where its connection_handler stands
    inbuf,    \* per connection: bytes the peer has sent and the server has not read
    eof,      \* per connection: the peer has closed its sending side
    data,     \* per connection: the request decoded by handle_request
    resp,     \* per connection: the response get_response produced
    out,      \* per connection: bytes written to the peer and not yet read by it
    exc,      \* per connection: the exception that ended its handler, if any
    live,     \* history: the writes no DELETE or FLUSH has followed
    flushed,  \* history: the last store-changing command was a FLUSH
    lastErr,  \* history, per connection: its previous response was an Error
    pool,     \* Server._pool: the connections whose handler holds a slot
    pending,  \* history, per connection: the frames sent and not yet answered
    cval,     \* codec run: the value handed to the encoder
    ctail,    \* codec run: the bytes that follow the frame on the stream
    cbuf,     \* codec run: the stream, encode(cval) followed by ctail
    cres      \* codec run: what the decoder returned for cbuf

vars == <<kv, state, inbuf, eof, data, resp, out, exc, live, flushed, lastErr,
          pool, pending, cval, ctail, cbuf, cres>>

(***************************************************************************)
(* Values                                                                  *)
(***************************************************************************)
Null == [t |-> "null", v |-> 0]

Integer(n) == [t |-> "int", v |-> n]

Str(s) == [t |-> "str", v |-> s]

Error(s) == [t |-> "err", v |-> s]

Arr(xs) == [t |-> "list", v |-> xs]

Dict(ps) == [t |-> "dict", v |-> ps]

\* Python can hash None, int, str and the Error namedtuple of a str; a list
\* or a dict as a dict key raises TypeError.
Hashable(x) == x.t \notin {"list", "dict"}

CRLF == <<"\r", "\n">>

DigitChars == <<"0", "1", "2", "3", "4", "5", "6", "7", "8", "9">>

IsDigit(ch) == \E i \in 1..10 : DigitChars[i] = ch

DigitVal(ch) == (CHOOSE i \in 1..10 : DigitChars[i] = ch) - 1

RECURSIVE NatToChars(_)
NatToChars(n) ==
    IF n < 10 THEN <<DigitChars[n + 1]>>
    ELSE NatToChars(n \div 10) \o <<DigitChars[(n % 10) + 1]>>

\* The decimal text of an int, as an f-string formats it.
IntToChars(n) == IF n < 0 THEN <<"-">> \o NatToChars(-n) ELSE NatToChars(n)

(***************************************************************************)
(* ProtocolHandler._write: the encoder                                     *)
(***************************************************************************)
RECURSIVE _write(_)
RECURSIVE WriteAll(_)
RECURSIVE WritePairs(_)

WriteAll(xs) ==
    IF xs = <<>> THEN <<>> ELSE _write(Head(xs)) \o WriteAll(Tail(xs))

WritePairs(ps) ==
    IF ps = <<>> THEN <<>>
    ELSE _write(Head(ps)[1]) \o _write(Head(ps)[2]) \o WritePairs(Tail(ps))

_write(x) ==
    CASE x.t = "str"  -> <<"$">> \o IntToChars(Len(x.v)) \o CRLF \o x.v \o CRLF
      [] x.t = "int"  -> <<":">> \o IntToChars(x.v) \o CRLF
      [] x.t = "err"  -> <<"-">> \o x.v \o CRLF
      [] x.t = "list" -> <<"*">> \o IntToChars(Len(x.v)) \o CRLF \o WriteAll(x.v)
      [] x.t = "dict" -> <<"%">> \o IntToChars(Len(x.v)) \o CRLF \o WritePairs(x.v)
      [] x.t = "null" -> <<"$", "-", "1">> \o CRLF

\* Mutant of Encodable: the encoder has no branch for a dict.
RECURSIVE EncodableNoDict(_)
EncodableNoDict(x) ==
    CASE x.t \in {"str", "int", "err", "null"} -> TRUE
      [] x.t = "list" -> \A i \in 1..Len(x.v) : EncodableNoDict(x.v[i])
      [] OTHER -> FALSE

\* The isinstance chain of _write finds a branch for x and for all that x
\* holds; where it finds none, _write raises CommandError('Unrecognized
\* type') and nothing is written.
RECURSIVE Encodable(_)
Encodable(x) ==
    CASE x.t \in {"str", "int", "err", "null"} -> TRUE
      [] x.t = "list" -> \A i \in 1..Len(x.v) : Encodable(x.v[i])
      [] x.t = "dict" ->
             \A i \in 1..Len(x.v) : Encodable(x.v[i][1]) /\ Encodable(x.v[i][2])
      [] OTHER -> FALSE

(***************************************************************************)
(* Reading from socket_file.  A read that asks for more than the stream    *)
(* holds returns what is there once the peer has closed (hit = TRUE says   *)
(* the read ran into the end of the bytes received so far).                *)
(***************************************************************************)
RECURSIVE FirstLF(_, _)
FirstLF(buf, i) ==
    IF i > Len(buf) THEN 0
    ELSE IF buf[i] = "\n" THEN i
    ELSE FirstLF(buf, i + 1)

LineAt(buf, i) ==
    IF i = 0 THEN [line |-> buf, rest |-> <<>>, hit |-> TRUE]
    ELSE [line |-> SubSeq(buf, 1, i), rest |-> SubSeq(buf, i + 1, Len(buf)),
          hit |-> FALSE]

\* socket_file.readline(): up to and including the first LF, or to the end.
readline(buf) == LineAt(buf, FirstLF(buf, 1))

\* bytes.rstrip(b'\r\n'): drops every trailing CR and LF.
RECURSIVE rstrip(_)
rstrip(s) ==
    IF s # <<>> /\ s[Len(s)] \in {"\r", "\n"}
    THEN rstrip(SubSeq(s, 1, Len(s) - 1))
    ELSE s

RECURSIVE lstripWs(_)
lstripWs(s) ==
    IF s # <<>> /\ s[1] \in {"\r", "\n"} THEN lstripWs(Tail(s)) ELSE s

RECURSIVE DigitsVal(_)
DigitsVal(s) ==
    IF s = <<>> THEN 0
    ELSE 10 * DigitsVal(SubSeq(s, 1, Len(s) - 1)) + DigitVal(s[Len(s)])

IntOf(u, signed, d) ==
    IF d = <<>> \/ \E i \in 1..Len(d) : ~IsDigit(d[i]) THEN [ok |-> FALSE, n |-> 0]
    ELSE [ok |-> TRUE,
          n |-> IF signed /\ u[1] = "-" THEN 0 - DigitsVal(d) ELSE DigitsVal(d)]

SignedInt(u, signed) == IntOf(u, signed, IF signed THEN Tail(u) ELSE u)

StrippedInt(u) == SignedInt(u, u # <<>> /\ u[1] \in {"-", "+"})

\* int(b): leading white space skipped, an optional sign, then digits;
\* anything else raises ValueError (ok = FALSE).
ParseInt(s) == StrippedInt(lstripWs(s))

CountOf(l, p) == [ok |-> p.ok, n |-> p.n, rest |-> l.rest, hit |-> l.hit]

CountLine(l) == CountOf(l, ParseInt(rstrip(l.line)))

\* The count or length line of a frame: int(socket_file.readline().rstrip()).
ReadCount(buf) == CountLine(readline(buf))

\* What a decoder returns: st is "ok" or the exception raised.
Res(st, val, rest, hit) == [st |-> st, val |-> val, rest |-> rest, hit |-> hit]

\* dict(zip(elements[::2], elements[1::2])): a repeated key keeps its first
\* position and takes the last value.
RECURSIVE DictPut(_, _, _)
DictPut(ps, k, v) ==
    IF ps = <<>> THEN <<<<k, v>>>>
    ELSE IF Head(ps)[1] = k THEN <<<<k, v>>>> \o Tail(ps)
    ELSE <<Head(ps)>> \o DictPut(Tail(ps), k, v)

RECURSIVE ZipDict(_, _)
ZipDict(elems, acc) ==
    IF Len(elems) < 2 THEN acc
    ELSE ZipDict(SubSeq(elems, 3, Len(elems)), DictPut(acc, elems[1], elems[2]))

EvenKeysHashable(elems) ==
    \A i \in 1..Len(elems) : (i % 2 = 1 /\ i < Len(elems)) => Hashable(elems[i])


(***************************************************************************)
(* ProtocolHandler.handle_request and the handle_* decoders                *)
(***************************************************************************)
Handlers == {"+", "-", ":", "$", "*", "%"}

\* Mutant of PayloadOf: the two bytes that end the payload are cut off the
\* value and left on the stream.
PayloadLeavesCRLF(buf, take, whole) ==
    [val |-> SubSeq(buf, 1, IF take >= 2 THEN take - 2 ELSE 0),
     rest |-> SubSeq(buf, (IF take >= 2 THEN take - 2 ELSE 0) + 1, Len(buf)),
     hit |-> ~whole]

PayloadOf(buf, take, whole) ==
    [val |-> SubSeq(buf, 1, IF take >= 2 THEN take - 2 ELSE 0),
     rest |-> SubSeq(buf, take + 1, Len(buf)),
     hit |-> ~whole]

\* socket_file.read(n) followed by [:-2]: n >= 0 takes at most n bytes, n = -1
\* takes all the bytes to the end of the stream (n < -1 raises ValueError).
ReadPayload(buf, n) ==
    IF n = -1 \/ n > Len(buf) THEN PayloadOf(buf, Len(buf), FALSE)
    ELSE PayloadOf(buf, n, TRUE)

TextOf(l) == rstrip(l.line)

SimpleStringOf(l) == Res("ok", Str(TextOf(l)), l.rest, l.hit)

handle_simple_string(buf) == SimpleStringOf(readline(buf))

ErrorOf(l) == Res("ok", Error(TextOf(l)), l.rest, l.hit)

handle_error(buf) == ErrorOf(readline(buf))

IntegerOf(c) ==
    IF c.ok THEN Res("ok", Integer(c.n), c.rest, c.hit)
    ELSE Res("ValueError", Null, c.rest, c.hit)

handle_integer(buf) == IntegerOf(ReadCount(buf))

StringOf(c, p) == Res("ok", Str(p.val), p.rest, c.hit \/ p.hit)

StringOfLength(c) ==
    IF ~c.ok THEN Res("ValueError", Null, c.rest, c.hit)
    ELSE IF c.n = -1 THEN Res("ok", Null, c.rest, c.hit)
    ELSE IF c.n + 2 < -1 THEN Res("ValueError", Null, c.rest, c.hit)
    ELSE StringOf(c, ReadPayload(c.rest, c.n + 2))

handle_string(buf) == StringOfLength(ReadCount(buf))

RECURSIVE handle_request(_)
RECURSIVE ReadElements(_, _, _, _)

NextElement(r, n, acc, hit) ==
    IF r.st # "ok" THEN Res(r.st, Null, r.rest, hit \/ r.hit)
    ELSE ReadElements(r.rest, n - 1, Append(acc, r.val), hit \/ r.hit)

\* [self.handle_request(socket_file) for _ in range(n)]: the first exception
\* ends the comprehension.
ReadElements(buf, n, acc, hit) ==
    IF n <= 0 THEN Res("ok", acc, buf, hit)
    ELSE NextElement(handle_request(buf), n, acc, hit)

ArrayOf(e) == IF e.st # "ok" THEN e ELSE Res("ok", Arr(e.val), e.rest, e.hit)

ArrayOfCount(c) ==
    IF ~c.ok THEN Res("ValueError", Null, c.rest, c.hit)
    ELSE ArrayOf(ReadElements(c.rest, c.n, <<>>, c.hit))

handle_array(buf) == ArrayOfCount(ReadCount(buf))

DictOf(e) ==
    IF e.st # "ok" THEN e
    ELSE IF ~EvenKeysHashable(e.val) THEN Res("TypeError", Null, e.rest, e.hit)
    ELSE Res("ok", Dict(ZipDict(e.val, <<>>)), e.rest, e.hit)

DictOfCount(c) ==
    IF ~c.ok THEN Res("ValueError", Null, c.rest, c.hit)
    ELSE DictOf(ReadElements(c.rest, c.n * 2, <<>>, c.hit))

handle_dict(buf) == DictOfCount(ReadCount(buf))

\* The handler of a recognised tag byte.
HandlerOf(tag, buf) ==
    CASE tag = "+" -> handle_simple_string(buf)
      [] tag = "-" -> handle_error(buf)
      [] tag = ":" -> handle_integer(buf)
      [] tag = "$" -> handle_string(buf)
      [] tag = "*" -> handle_array(buf)
      [] tag = "%" -> handle_dict(buf)

\* Mutant of UnknownTag: an unknown tag byte starts a line of text.
UnknownTagAsText(tag, buf) == handle_simple_string(buf)

\* A tag byte that is no key of self.handlers: KeyError, re-raised as
\* CommandError('bad request').
UnknownTag(tag, buf) == Res("CommandError", Null, buf, FALSE)

handle_request(buf) ==
    IF buf = <<>> THEN Res("Disconnect", Null, <<>>, TRUE)
    ELSE IF Head(buf) \in Handlers THEN HandlerOf(Head(buf), Tail(buf))
    ELSE UnknownTag(Head(buf), Tail(buf))

(***************************************************************************)
(* The key-value store: Server._kv and the six commands.  A command gets   *)
(* the store and the request's arguments (data[1:]) and returns            *)
(* [st, val, kv]: st is "ok" or the exception raised, val the value        *)
(* returned, kv the store it leaves.  Calling a command with the wrong     *)
(* number of arguments, or using a list or dict as a key, raises TypeError.*)
(***************************************************************************)
EmptyStore == [k \in {} |-> Null]

Put(s, k, v) == [x \in (DOMAIN s) \cup {k} |-> IF x = k THEN v ELSE s[x]]

Drop(s, k) == [x \in (DOMAIN s) \ {k} |-> s[x]]

Lookup(s, k) == IF k \in DOMAIN s THEN s[k] ELSE Null

Ret(st, val, s) == [st |-> st, val |-> val, kv |-> s]

get(s, args) ==
    IF Len(args) # 1 \/ ~Hashable(args[1]) THEN Ret("TypeError", Null, s)
    ELSE Ret("ok", Lookup(s, args[1]), s)

\* Mutant of set: a key that is present keeps its value.
setIfAbsent(s, args) ==
    IF Len(args) # 2 \/ ~Hashable(args[1]) THEN Ret("TypeError", Null, s)
    ELSE Ret("ok", Integer(1),
             IF args[1] \in DOMAIN s THEN s ELSE Put(s, args[1], args[2]))

set(s, args) ==
    IF Len(args) # 2 \/ ~Hashable(args[1]) THEN Ret("TypeError", Null, s)
    ELSE Ret("ok", Integer(1), Put(s, args[1], args[2]))

\* 1 if self._kv.pop(key, None) is not None else 0
\* (dict.pop on an empty dict returns the default without hashing the key).
delete(s, args) ==
    IF Len(args) # 1 THEN Ret("TypeError", Null, s)
    ELSE IF DOMAIN s = {} THEN Ret("ok", Integer(0), s)
    ELSE IF ~Hashable(args[1]) THEN Ret("TypeError", Null, s)
    ELSE Ret("ok", Integer(IF Lookup(s, args[1]) # Null THEN 1 ELSE 0),
             Drop(s, args[1]))

\* Mutant of flush: the count is returned and the store is not cleared.
flushKeeps(s, args) ==
    IF Len(args) # 0 THEN Ret("TypeError", Null, s)
    ELSE Ret("ok", Integer(Cardinality(DOMAIN s)), s)

flush(s, args) ==
    IF Len(args) # 0 THEN Ret("TypeError", Null, s)
    ELSE Ret("ok", Integer(Cardinality(DOMAIN s)), EmptyStore)

\* Mutant of mget: the keys that are absent get no slot.
mgetPresent(s, args) ==
    IF \E i \in 1..Len(args) : ~Hashable(args[i]) THEN Ret("TypeError", Null, s)
    ELSE Ret("ok", Arr(SelectSeq([i \in 1..Len(args) |-> Lookup(s, args[i])],
                                 LAMBDA x : x # Null)), s)

mget(s, args) ==
    IF \E i \in 1..Len(args) : ~Hashable(args[i]) THEN Ret("TypeError", Null, s)
    ELSE Ret("ok", Arr([i \in 1..Len(args) |-> Lookup(s, args[i])]), s)

\* Mutant of MsetLoop: the loop gives way after its first pair, and the
\* pairs that follow are not in the store when the next command runs.
MsetLoopOnePair(s, items, n) ==
    IF Len(items) < 2 THEN Ret("ok", Integer(n), s)
    ELSE IF ~Hashable(items[1]) THEN Ret("TypeError", Null, s)
    ELSE Ret("ok", Integer(n), Put(s, items[1], items[2]))

\* for key, value in zip(items[::2], items[1::2]): self._kv[key] = value
\* The pairs before the first unhashable key have been stored when it raises.
RECURSIVE MsetLoop(_, _, _)
MsetLoop(s, items, n) ==
    IF Len(items) < 2 THEN Ret("ok", Integer(n), s)
    ELSE IF ~Hashable(items[1]) THEN Ret("TypeError", Null, s)
    ELSE MsetLoop(Put(s, items[1], items[2]), SubSeq(items, 3, Len(items)), n)

\* Mutant of mset: the count is rounded up, the unpaired argument counted.
msetRoundUp(s, args) == MsetLoop(s, args, (Len(args) + 1) \div 2)

mset(s, args) == MsetLoop(s, args, Len(args) \div 2)

(***************************************************************************)
(* Server.get_response: the dispatcher                                     *)
(***************************************************************************)
LowerChars == <<"a", "b", "c", "d", "e", "f", "g", "h", "i", "j", "k", "l", "m", "n", "o", "p", "q", "r", "s", "t", "u", "v", "w", "x", "y", "z">>

UpperChars == <<"A", "B", "C", "D", "E", "F", "G", "H", "I", "J", "K", "L", "M", "N", "O", "P", "Q", "R", "S", "T", "U", "V", "W", "X", "Y", "Z">>

UpperChar(ch) ==
    IF \E i \in 1..26 : LowerChars[i] = ch
    THEN UpperChars[CHOOSE i \in 1..26 : LowerChars[i] = ch]
    ELSE ch

\* str.upper()
upper(s) == [i \in 1..Len(s) |-> UpperChar(s[i])]

NameGET == <<"G", "E", "T">>

NameSET == <<"S", "E", "T">>

NameDELETE == <<"D", "E", "L", "E", "T", "E">>

NameFLUSH == <<"F", "L", "U", "S", "H">>

NameMGET == <<"M", "G", "E", "T">>

NameMSET == <<"M", "S", "E", "T">>

\* The keys of Server.get_commands().
CommandNames == {NameGET, NameSET, NameDELETE, NameFLUSH, NameMGET, NameMSET}

MsgNotList == <<"R", "e", "q", "u", "e", "s", "t", " ", "m", "u", "s", "t", " ", "b", "e", " ", "l", "i", "s", "t", ".">>

MsgMissing == <<"M", "i", "s", "s", "i", "n", "g", " ", "c", "o", "m", "m", "a", "n", "d">>

MsgUnrecognized == <<"U", "n", "r", "e", "c", "o", "g", "n", "i", "z", "e", "d", " ", "c", "o", "m", "m", "a", "n", "d", ":", " ">>

\* Mutant of CallCommand: the arguments are upper-cased like the name.
CallCommandFolded(command, s, args) ==
    CASE command = NameGET    ->
             get(s, [i \in 1..Len(args) |->
                        IF args[i].t = "str" THEN Str(upper(args[i].v)) ELSE args[i]])
      [] command = NameSET    ->
             set(s, [i \in 1..Len(args) |->
                        IF args[i].t = "str" THEN Str(upper(args[i].v)) ELSE args[i]])
      [] command = NameDELETE -> delete(s, args)
      [] command = NameFLUSH  -> flush(s, args)
      [] command = NameMGET   -> mget(s, args)
      [] command = NameMSET   -> mset(s, args)

\* self._commands[command](*data[1:])
CallCommand(command, s, args) ==
    CASE command = NameGET    -> get(s, args)
      [] command = NameSET    -> set(s, args)
      [] command = NameDELETE -> delete(s, args)
      [] command = NameFLUSH  -> flush(s, args)
      [] command = NameMGET   -> mget(s, args)
      [] command = NameMSET   -> mset(s, args)

\* Mutant of CommandOf: the name is looked up as sent.
CommandOfAsSent(first) == first.v

\* command = data[0].upper(): only a str has upper().
CommandOf(first) == upper(first.v)

\* Mutant of get_response: the two shape tests are missing, and data[0] of
\* a value that is no list, or of an empty one, raises.
get_responseUnchecked(d, s) ==
    IF d.t # "list" \/ d.v = <<>> THEN Ret("TypeError", Null, s)
    ELSE IF d.v[1].t # "str" THEN Ret("AttributeError", Null, s)
    ELSE IF CommandOf(d.v[1]) \notin CommandNames
         THEN Ret("CommandError", Str(MsgUnrecognized \o CommandOf(d.v[1])), s)
    ELSE CallCommand(CommandOf(d.v[1]), s, Tail(d.v))

get_response(d, s) ==
    IF d.t # "list" THEN Ret("CommandError", Str(MsgNotList), s)
    ELSE IF d.v = <<>> THEN Ret("CommandError", Str(MsgMissing), s)
    ELSE IF d.v[1].t # "str" THEN Ret("AttributeError", Null, s)
    ELSE IF CommandOf(d.v[1]) \notin CommandNames
         THEN Ret("CommandError", Str(MsgUnrecognized \o CommandOf(d.v[1])), s)
    ELSE CallCommand(CommandOf(d.v[1]), s, Tail(d.v))

(***************************************************************************)
(* History of the store's writes, kept beside the store and never read by  *)
(* the commands: live holds <<key, value>> for the most recent write of    *)
(* each key that no DELETE of the key and no FLUSH has followed; flushed   *)
(* says that a FLUSH ran and no SET or MSET has been dispatched since.     *)
(***************************************************************************)
IsCommand(d, name) ==
    /\ d.t = "list"
    /\ d.v # <<>>
    /\ d.v[1].t = "str"
    /\ upper(d.v[1].v) = name

ArgsOf(d) == Tail(d.v)

Written(l, k, v) == {p \in l : p[1] # k} \cup {<<k, v>>}

RECURSIVE WrittenPairs(_, _)
WrittenPairs(l, items) ==
    IF Len(items) < 2 \/ ~Hashable(items[1]) THEN l
    ELSE WrittenPairs(Written(l, items[1], items[2]), SubSeq(items, 3, Len(items)))

LiveAfter(l, d) ==
    CASE IsCommand(d, NameSET) /\ Len(ArgsOf(d)) = 2 /\ Hashable(ArgsOf(d)[1]) ->
             Written(l, ArgsOf(d)[1], ArgsOf(d)[2])
      [] IsCommand(d, NameMSET) -> WrittenPairs(l, ArgsOf(d))
      [] IsCommand(d, NameDELETE) /\ Len(ArgsOf(d)) = 1 /\ Hashable(ArgsOf(d)[1]) ->
             {p \in l : p[1] # ArgsOf(d)[1]}
      [] IsCommand(d, NameFLUSH) /\ Len(ArgsOf(d)) = 0 -> {}
      [] OTHER -> l

FlushedAfter(f, d) ==
    CASE IsCommand(d, NameFLUSH) /\ Len(ArgsOf(d)) = 0 -> TRUE
      [] IsCommand(d, NameSET) \/ IsCommand(d, NameMSET) -> FALSE
      [] OTHER -> f

(***************************************************************************)
(* Server.connection_handler: one unit per connection                      *)
(***************************************************************************)
Conns == {"c1", "c2"}

NoData == [t |-> "none", v |-> 0]

NoRes == Res("none", Null, <<>>, FALSE)

\* What connection_handler does with the outcome of handle_request: only
\* Disconnect is caught (break); any other exception leaves the handler.
AfterRead(st) == IF st = "ok" THEN "DISPATCHING" ELSE "CLOSED"

\* What connection_handler does with the outcome of get_response: a
\* CommandError becomes the response Error(exc.args[0]); any other exception
\* leaves the handler.
AfterDispatch(st) ==
    IF st \in {"ok", "CommandError"} THEN "ENCODING_RESPONSE" ELSE "CLOSED"

ResponseOf(r) == IF r.st = "CommandError" THEN Error(r.val.v) ELSE r.val

\* Server._pool = Pool(max_clients), the spawn of the StreamServer: the
\* greenlet of a handler leaves the pool when the handler returns or raises
\* (st is where the handler stands after the step, e the exception raised).
\* Mutant of Release: the slot is given back where the handler returns, and
\* kept when an exception leaves it.
ReleaseOnReturn(p, c, st, e) ==
    IF st = "CLOSED" /\ e = "Disconnect" THEN p \ {c} ELSE p

Release(p, c, st, e) == IF st = "CLOSED" THEN p \ {c} ELSE p

\* The frames of a connection whose handler has ended get no answer.
Unanswered(q, st) == IF st = "CLOSED" THEN <<>> ELSE q

codecVars == <<cval, ctail, cbuf, cres>>

history == <<live, flushed, lastErr>>

\* The peer writes the bytes of one request, any of frames, and then waits
\* for the reply, as Client.execute does.  A peer that has connected can
\* write before the server has accepted its connection.
PeerSend(c, frames) ==
    /\ state[c] \in {"WAITING", "AWAITING_REQUEST"}
    /\ ~eof[c]
    /\ inbuf[c] = <<>>
    /\ out[c] = <<>>
    /\ \E f \in frames :
          /\ inbuf' = [inbuf EXCEPT ![c] = f]
          /\ pending' = [pending EXCEPT ![c] = Append(@, f)]
    /\ UNCHANGED <<kv, state, eof, data, resp, out, exc, history, pool, codecVars>>

\* The peer closes its sending side: the server's next empty read is the
\* end of the stream.
PeerClose(c) ==
    /\ ~eof[c]
    /\ eof' = [eof EXCEPT ![c] = TRUE]
    /\ UNCHANGED <<kv, state, inbuf, data, resp, out, exc, history, pool, pending,
                   codecVars>>

\* The peer reads one value from the bytes the server wrote
\* (Client.execute: self._protocol.handle_request(self._fh)).
Received(c, r) ==
    /\ ~r.hit
    /\ out' = [out EXCEPT ![c] = r.rest]

PeerRecv(c) ==
    /\ out[c] # <<>>
    /\ Received(c, handle_request(out[c]))
    /\ UNCHANGED <<kv, state, inbuf, eof, data, resp, exc, history, pool, pending,
                   codecVars>>

\* data = self._protocol.handle_request(socket_file).  The reads block until
\* the bytes they ask for have arrived or the peer has closed.
Decoded(c, r) ==
    /\ r.hit => eof[c]
    /\ state' = [state EXCEPT ![c] = AfterRead(r.st)]
    /\ inbuf' = [inbuf EXCEPT ![c] = r.rest]
    /\ data' = [data EXCEPT ![c] = IF r.st = "ok" THEN r.val ELSE NoData]
    /\ exc' = [exc EXCEPT ![c] = IF r.st = "ok" THEN "" ELSE r.st]
    /\ pool' = Release(pool, c, AfterRead(r.st), r.st)
    /\ pending' = [pending EXCEPT ![c] = Unanswered(@, AfterRead(r.st))]

ReadRequest(c) ==
    /\ state[c] = "AWAITING_REQUEST"
    /\ Decoded(c, handle_request(inbuf[c]))
    /\ UNCHANGED <<kv, eof, resp, out, history, codecVars>>

\* resp = self.get_response(data), CommandError caught.
Responded(c, r) ==
    /\ kv' = r.kv
    /\ state' = [state EXCEPT ![c] = AfterDispatch(r.st)]
    /\ resp' = [resp EXCEPT ![c] =
                   IF AfterDispatch(r.st) = "CLOSED" THEN NoData ELSE ResponseOf(r)]
    /\ exc' = [exc EXCEPT ![c] =
                   IF AfterDispatch(r.st) = "CLOSED" THEN r.st ELSE ""]
    /\ pool' = Release(pool, c, AfterDispatch(r.st), r.st)
    /\ pending' = [pending EXCEPT ![c] = Unanswered(@, AfterDispatch(r.st))]

Dispatch(c) ==
    /\ state[c] = "DISPATCHING"
    /\ Responded(c, get_response(data[c], kv))
    /\ live' = LiveAfter(live, data[c])
    /\ flushed' = FlushedAfter(flushed, data[c])
    /\ UNCHANGED <<inbuf, eof, data, out, lastErr, codecVars>>

\* What connection_handler does with the outcome of write_response, which
\* no try encloses: the loop starts over, or the CommandError of _write
\* leaves the handler.
AfterWrite(ok) == IF ok THEN "AWAITING_REQUEST" ELSE "CLOSED"

\* write_response fills its buffer with _write and then writes the buffer
\* to the socket: nothing is written when _write raises.
Sent(c, ok) ==
    /\ out' = [out EXCEPT ![c] = IF ok THEN @ \o _write(resp[c]) ELSE @]
    /\ state' = [state EXCEPT ![c] = AfterWrite(ok)]
    /\ exc' = [exc EXCEPT ![c] = IF ok THEN @ ELSE "CommandError"]
    /\ pool' = Release(pool, c, AfterWrite(ok), "CommandError")
    /\ pending' = [pending EXCEPT ![c] =
                      IF ok /\ @ # <<>> THEN Tail(@) ELSE <<>>]

\* self._protocol.write_response(socket_file, resp), then the loop starts over.
WriteResponse(c) ==
    /\ state[c] = "ENCODING_RESPONSE"
    /\ Sent(c, Encodable(resp[c]))
    /\ data' = [data EXCEPT ![c] = NoData]
    /\ resp' = [resp EXCEPT ![c] = NoData]
    /\ lastErr' = [lastErr EXCEPT ![c] = (resp[c].t = "err")]
    /\ UNCHANGED <<kv, inbuf, eof, live, flushed, codecVars>>

(***************************************************************************)
(* What the peers send                                                     *)
(***************************************************************************)
KeyA == Str(<<"a">>)

KeyB == Str(<<"b">>)

Val1 == Str(<<"1">>)

Val2 == Str(<<"2">>)

\* Client.execute(*args): the request is the array of its arguments.
Request(name, args) == Arr(<<Str(name)>> \o args)

\* Requests with the number of arguments their command takes.
ValidRequests ==
    { Request(NameSET, <<KeyA, Val1>>),
      Request(NameSET, <<KeyA, Null>>),
      Request(NameGET, <<KeyA>>),
      Request(NameDELETE, <<KeyA>>),
      Request(NameFLUSH, <<>>),
      Request(NameMSET, <<KeyA, Val2, KeyB, Val1>>) }

\* A recognised command with a number of arguments it does not take.
WrongArityRequests ==
    { Request(NameGET, <<>>),
      Request(NameFLUSH, <<KeyA>>) }

\* Names that are no command once upper-cased; the second holds a line feed.
UnknownRequests ==
    { Request(<<"f", "o", "o">>, <<>>),
      Request(<<"x", "\n", "y">>, <<KeyA>>) }

\* Byte streams with a tag byte that is no key of the handlers: at the
\* start of a request, and for an element of an array.
BadTagFrames ==
    { <<"?">>,
      <<"*", "1">> \o CRLF \o <<"?">> }

PeerRequests == ValidRequests \cup WrongArityRequests \cup UnknownRequests

PeerFrames == {_write(r) : r \in PeerRequests} \cup BadTagFrames

(***************************************************************************)
(* The server and its connections                                          *)
(***************************************************************************)
InitCodecIdle ==
    /\ cval = Null
    /\ ctail = <<>>
    /\ cbuf = <<>>
    /\ cres = NoRes

InitServer ==
    /\ kv = EmptyStore
    /\ state = [c \in Conns |-> "AWAITING_REQUEST"]
    /\ inbuf = [c \in Conns |-> <<>>]
    /\ eof = [c \in Conns |-> FALSE]
    /\ data = [c \in Conns |-> NoData]
    /\ resp = [c \in Conns |-> NoData]
    /\ out = [c \in Conns |-> <<>>]
    /\ exc = [c \in Conns |-> ""]
    /\ live = {}
    /\ flushed = FALSE
    /\ lastErr = [c \in Conns |-> FALSE]
    /\ pool = Conns
    /\ pending = [c \in Conns |-> <<>>]

Init == InitServer /\ InitCodecIdle

Next ==
    \E c \in Conns :
        \/ PeerSend(c, PeerFrames)
        \/ PeerClose(c)
        \/ PeerRecv(c)
        \/ ReadRequest(c)
        \/ Dispatch(c)
        \/ WriteResponse(c)

Spec == Init /\ [][Next]_vars

(***************************************************************************)
(* One connection sending every request of the six commands with up to     *)
(* MaxArgs arguments drawn from StoreArgs                                  *)
(***************************************************************************)
MaxArgs == 4

StoreArgs == {KeyA, KeyB, Null}

ArgSeqs == UNION {[1..n -> StoreArgs] : n \in 0..MaxArgs}

StoreRequests == {Request(name, a) : name \in CommandNames, a \in ArgSeqs}

StoreFrames == {_write(r) : r \in StoreRequests}

NextStore ==
    \/ PeerSend("c1", StoreFrames)
    \/ PeerRecv("c1")
    \/ ReadRequest("c1")
    \/ Dispatch("c1")
    \/ WriteResponse("c1")

SpecStore == Init /\ [][NextStore]_vars

(***************************************************************************)
(* The codec alone: a value is encoded by write_response in front of the   *)
(* bytes that follow it on the stream, and handle_request decodes the      *)
(* stream                                                                  *)
(***************************************************************************)
MaxStrLen == 2

MaxElems == 2

CodecChars == {"a", "\r", "\n"}

CodecStrings == UNION {[1..n -> CodecChars] : n \in 0..MaxStrLen}

CodecInts == {-12, -1, 0, 7, 10}

Scalars ==
    {Null} \cup {Integer(n) : n \in CodecInts}
           \cup {Str(t) : t \in CodecStrings}
           \cup {Error(t) : t \in CodecStrings}

\* The elements of the containers of one level.
Leaves ==
    {Null, Integer(-1), Str(<<>>), Str(<<"a", "\r", "\n">>), Error(<<"a">>)}

\* The elements of the containers of two levels.
Nested ==
    {Null, Arr(<<>>), Arr(<<Null, Str(<<"a">>)>>), Dict(<<>>),
     Dict(<<<<Str(<<"a">>), Integer(0)>>>>)}

ArraysOf(S) == {Arr(xs) : xs \in UNION {[1..n -> S] : n \in 0..MaxElems}}

\* A Python dict: its keys hashable and pairwise different.
DictsOf(K, S) ==
    {Dict(ps) : ps \in
        {qs \in UNION {[1..n -> K \X S] : n \in 0..MaxElems} :
            \A i, j \in 1..Len(qs) : i # j => qs[i][1] # qs[j][1]}}

CodecValues ==
    Scalars \cup ArraysOf(Leaves) \cup DictsOf(Leaves, Leaves)
            \cup ArraysOf(Nested) \cup DictsOf({Null, Str(<<"a">>)}, Nested)

\* What follows the frame: nothing, or the next frame.
CodecTails == {<<>>, _write(Integer(7)), _write(Str(<<"a">>))}

InitCodec ==
    /\ InitServer
    /\ cval \in CodecValues
    /\ ctail \in CodecTails
    /\ cbuf = <<>>
    /\ cres = NoRes

\* write_response: the frame of cval is written in front of ctail.
CodecWrite ==
    /\ cbuf = <<>>
    /\ cres = NoRes
    /\ cbuf' = _write(cval) \o ctail
    /\ UNCHANGED <<kv, state, inbuf, eof, data, resp, out, exc, history,
                   pool, pending, cval, ctail, cres>>

\* handle_request on the stream.
CodecRead ==
    /\ cbuf # <<>>
    /\ cres = NoRes
    /\ cres' = handle_request(cbuf)
    /\ UNCHANGED <<kv, state, inbuf, eof, data, resp, out, exc, history,
                   pool, pending, cval, ctail, cbuf>>

NextCodec == CodecWrite \/ CodecRead

SpecCodec == InitCodec /\ [][NextCodec]_vars

(***************************************************************************)
(* One connection sending requests of the wrong shape and requests that    *)
(* fail, between requests that succeed                                     *)
(***************************************************************************)
\* Well-formed values that are no non-empty array.
NotArrayRequests ==
    { Integer(5), Str(<<"G", "E", "T">>), Null, Error(<<"e">>), Dict(<<>>),
      Dict(<<<<Str(NameGET), KeyA>>>>), Arr(<<>>) }

\* Non-empty arrays whose first element is no text.
NotTextRequests ==
    { Arr(<<Integer(5)>>), Arr(<<Null, KeyA>>), Arr(<<Error(NameGET), KeyA>>),
      Arr(<<Arr(<<Str(NameFLUSH)>>)>>), Arr(<<Dict(<<>>), KeyA, Val1>>) }

\* Commands with a list or a dict where a key is expected.
BadKeyRequests ==
    { Request(NameMSET, <<KeyA, Val2, Arr(<<>>), Val1>>),
      Request(NameMSET, <<Dict(<<>>), Val1, KeyB, Val1>>),
      Request(NameSET, <<Arr(<<KeyA>>), Val1>>),
      Request(NameGET, <<Arr(<<>>)>>) }

GoodRequests ==
    { Request(NameSET, <<KeyA, Val1>>),
      Request(NameGET, <<KeyA>>),
      Request(NameMSET, <<KeyB, Val1>>),
      Request(NameFLUSH, <<>>) }

\* A simple string is text too: +GET
SimpleFrames == { <<"+">> \o NameGET \o CRLF }

ShapeFrames ==
    {_write(r) : r \in NotArrayRequests \cup NotTextRequests
                          \cup BadKeyRequests \cup GoodRequests}
        \cup SimpleFrames

NextShape ==
    \E c \in Conns :
        \/ PeerSend(c, ShapeFrames)
        \/ PeerClose(c)
        \/ PeerRecv(c)
        \/ ReadRequest(c)
        \/ Dispatch(c)
        \/ WriteResponse(c)

SpecShape == Init /\ [][NextShape]_vars

(***************************************************************************)
(* One connection whose command names, keys and values differ in letter    *)
(* case only                                                               *)
(***************************************************************************)
KeyLower == Str(<<"k">>)

KeyUpper == Str(<<"K">>)

ValLower == Str(<<"v">>)

ValMixed == Str(<<"V", "v">>)

SetNames == { <<"s", "e", "t">>, <<"S", "e", "t">>, <<"S", "E", "T">> }

GetNames == { <<"g", "e", "t">>, <<"G", "E", "T">> }

CaseRequests ==
    {Request(n, <<k, v>>) : n \in SetNames, k \in {KeyLower, KeyUpper},
                            v \in {ValLower, ValMixed}}
        \cup {Request(n, <<k>>) : n \in GetNames, k \in {KeyLower, KeyUpper}}
        \cup { Request(<<"d", "e", "l", "e", "t", "e">>, <<KeyUpper>>),
               Request(<<"M", "g", "e", "t">>, <<KeyLower, KeyUpper>>) }

CaseFrames == {_write(r) : r \in CaseRequests}

NextCase ==
    \/ PeerSend("c1", CaseFrames)
    \/ PeerRecv("c1")
    \/ ReadRequest("c1")
    \/ Dispatch("c1")
    \/ WriteResponse("c1")

SpecCase == Init /\ [][NextCase]_vars

(***************************************************************************)
(* Peers that stop in the middle of a frame: the peer writes the first     *)
(* bytes of the request SET a 12, any number of them, and closes           *)
(***************************************************************************)
Val12 == Str(<<"1", "2">>)

WholeFrame == _write(Request(NameSET, <<KeyA, Val12>>))

CutFrames == {SubSeq(WholeFrame, 1, n) : n \in 1..(Len(WholeFrame) - 1)}

CutSpecFrames ==
    CutFrames \cup {WholeFrame, _write(Request(NameGET, <<KeyA>>)),
                    _write(Request(NameDELETE, <<KeyA>>))}

NextCut ==
    \E c \in Conns :
        \/ PeerSend(c, CutSpecFrames)
        \/ PeerClose(c)
        \/ PeerRecv(c)
        \/ ReadRequest(c)
        \/ Dispatch(c)
        \/ WriteResponse(c)

SpecCut == Init /\ [][NextCut]_vars

(***************************************************************************)
(* One connection that stores values of every shape the decoder returns    *)
(* and has them echoed, between requests that are answered with an error   *)
(***************************************************************************)
EchoValues ==
    { Null, Integer(5), Val1, Error(<<"e">>), Arr(<<Null, Integer(5)>>),
      Dict(<<<<KeyA, Arr(<<>>)>>>>) }

EchoRequests ==
    {Request(NameSET, <<KeyA, v>>) : v \in EchoValues}
        \cup { Request(NameMSET, <<KeyB, Dict(<<<<Null, Error(<<>>)>>>>), KeyA, Val1>>),
               Request(NameGET, <<KeyA>>),
               Request(NameGET, <<KeyB>>),
               Request(NameMGET, <<KeyA, KeyB, Val1>>),
               Request(NameDELETE, <<KeyA>>),
               Request(NameFLUSH, <<>>),
               Request(<<"f", "o", "o">>, <<>>),
               Arr(<<>>),
               Integer(5) }

EchoFrames == {_write(r) : r \in EchoRequests}

NextEcho ==
    \/ PeerSend("c1", EchoFrames)
    \/ PeerRecv("c1")
    \/ ReadRequest("c1")
    \/ Dispatch("c1")
    \/ WriteResponse("c1")

SpecEcho == Init /\ [][NextEcho]_vars

(***************************************************************************)
(* Peers that pipeline: a peer that has read the replies written so far    *)
(* writes up to MaxPipelined requests without waiting for their replies,   *)
(* whatever its handler is doing                                           *)
(***************************************************************************)
MaxPipelined == 2

PeerPipeline(c, frames) ==
    /\ state[c] # "CLOSED"
    /\ ~eof[c]
    /\ Len(pending[c]) < MaxPipelined
    /\ out[c] = <<>>
    /\ \E f \in frames :
          /\ inbuf' = [inbuf EXCEPT ![c] = @ \o f]
          /\ pending' = [pending EXCEPT ![c] = Append(@, f)]
    /\ UNCHANGED <<kv, state, eof, data, resp, out, exc, history, pool, codecVars>>

PipeRequests ==
    { Request(NameSET, <<KeyA, Val1>>),
      Request(NameGET, <<KeyA>>),
      Request(NameDELETE, <<KeyA>>) }

PipeFrames == {_write(r) : r \in PipeRequests}

\* The peer of c1 pipelines; the peer of c2 sends one request at a time.
NextPipe ==
    \/ PeerPipeline("c1", PipeFrames)
    \/ PeerSend("c2", PipeFrames)
    \/ \E c \in Conns :
        \/ PeerClose(c)
        \/ PeerRecv(c)
        \/ ReadRequest(c)
        \/ Dispatch(c)
        \/ WriteResponse(c)

SpecPipe == Init /\ [][NextPipe]_vars

(***************************************************************************)
(* The pool of handlers: Server(max_clients = MaxClients) and one more     *)
(* connection than it has slots.  The StreamServer accepts a connection    *)
(* and spawns its handler in the pool while the pool is not full; a        *)
(* connection it has not accepted waits in the listen queue.               *)
(***************************************************************************)
MaxClients == 2

ConnNames == <<"c1", "c2", "c3", "c4", "c5">>

PoolConns == {ConnNames[i] : i \in 1..(MaxClients + 1)}

\* Mutant of PoolFull: the handlers are spawned outside any pool.
PoolNeverFull(p) == FALSE

\* Pool.full(): every slot of Pool(max_clients) is taken.
PoolFull(p) == Cardinality(p) >= MaxClients

Accept(c) ==
    /\ state[c] = "WAITING"
    /\ ~PoolFull(pool)
    /\ pool' = pool \cup {c}
    /\ state' = [state EXCEPT ![c] = "AWAITING_REQUEST"]
    /\ UNCHANGED <<kv, inbuf, eof, data, resp, out, exc, history, pending,
                   codecVars>>

\* A request that is served, a stream that ends the handler in its read,
\* and a request that ends it in its dispatch.
PoolFrames ==
    { _write(Request(NameGET, <<KeyA>>)),
      <<"?">>,
      _write(Request(NameGET, <<>>)) }

\* A Client closes between two calls of execute: it has no request on its
\* way.
ClientClose(c) ==
    /\ state[c] \in {"WAITING", "AWAITING_REQUEST"}
    /\ inbuf[c] = <<>>
    /\ PeerClose(c)

InitPool ==
    /\ kv = EmptyStore
    /\ state = [c \in PoolConns |-> "WAITING"]
    /\ inbuf = [c \in PoolConns |-> <<>>]
    /\ eof = [c \in PoolConns |-> FALSE]
    /\ data = [c \in PoolConns |-> NoData]
    /\ resp = [c \in PoolConns |-> NoData]
    /\ out = [c \in PoolConns |-> <<>>]
    /\ exc = [c \in PoolConns |-> ""]
    /\ live = {}
    /\ flushed = FALSE
    /\ lastErr = [c \in PoolConns |-> FALSE]
    /\ pool = {}
    /\ pending = [c \in PoolConns |-> <<>>]
    /\ InitCodecIdle

NextPool ==
    \E c \in PoolConns :
        \/ Accept(c)
        \/ PeerSend(c, PoolFrames)
        \/ ClientClose(c)
        \/ ReadRequest(c)
        \/ Dispatch(c)
        \/ WriteResponse(c)

SpecPool == InitPool /\ [][NextPool]_vars

\* The server's loop accepts a waiting connection when a slot is free: the
\* release of a slot starts the accepting again.
FairSpecPool == SpecPool /\ WF_vars(\E c \in PoolConns : Accept(c))

(***************************************************************************)
(* Two connections whose commands read and write the same two keys: each   *)
(* command runs from its call in get_response to its return with no switch *)
(* to another greenlet (the handlers give way only in the reads and writes *)
(* of their sockets), so a Dispatch is one step                            *)
(***************************************************************************)
SharedRequests ==
    { Request(NameMSET, <<KeyA, Val2, KeyB, Val1>>),
      Request(NameMSET, <<KeyA, Val1, KeyB, Val2>>),
      Request(NameMGET, <<KeyA, KeyB>>),
      Request(NameFLUSH, <<>>) }

SharedFrames == {_write(r) : r \in SharedRequests}

NextShared ==
    \E c \in Conns :
        \/ PeerSend(c, SharedFrames)
        \/ PeerClose(c)
        \/ PeerRecv(c)
        \/ ReadRequest(c)
        \/ Dispatch(c)
        \/ WriteResponse(c)

SpecShared == Init /\ [][NextShared]_vars

(***************************************************************************)
(* Properties                                                              *)
(***************************************************************************)
\* The step is connection c's dispatch of the request it holds.
Dispatches(c) == state[c] = "DISPATCHING" /\ state'[c] # "DISPATCHING"

\* The step is connection c's write of the response it holds.
Writes(c) == state[c] = "ENCODING_RESPONSE" /\ state'[c] # "ENCODING_RESPONSE"

\* The step is the server's read of the bytes it has on connection c.
Reads(c) ==
    /\ state[c] = "AWAITING_REQUEST"
    /\ inbuf[c] # <<>>
    /\ state'[c] # state[c]

\* Nothing of connection d changes in the step.
Untouched(d) ==
    /\ state'[d] = state[d]
    /\ inbuf'[d] = inbuf[d]
    /\ eof'[d] = eof[d]
    /\ data'[d] = data[d]
    /\ resp'[d] = resp[d]
    /\ out'[d] = out[d]
    /\ exc'[d] = exc[d]

\* C1: a request of a recognised command with a wrong number of arguments
\* is a recoverable command error: once dispatched it is answered with an
\* ErrorValue and its connection is not closed by it.
C1_WrongArityIsRecoverable ==
    \A c \in Conns :
        data[c] \in WrongArityRequests =>
            /\ state[c] \in {"DISPATCHING", "ENCODING_RESPONSE"}
            /\ state[c] = "ENCODING_RESPONSE" => resp[c].t = "err"

\* C2: when the server reads a stream with an unrecognised tag byte (at the
\* start of a request or for a nested element), that connection goes to
\* CLOSED, nothing is written to it, the store is unchanged and no other
\* connection is touched by the step.
C2_BadTagClosesOnlyItsConnection ==
    [][\A c \in Conns :
          (inbuf[c] \in BadTagFrames /\ Reads(c)) =>
              /\ state'[c] = "CLOSED"
              /\ out'[c] = out[c]
              /\ kv' = kv
              /\ \A d \in Conns \ {c} : Untouched(d)]_vars

\* C2, witness: a connection was closed by the bad-request error with
\* nothing written to it, and the other one holds the response to its SET.
C2_Witness ==
    \E c \in Conns : \E d \in Conns \ {c} :
        /\ state[c] = "CLOSED"
        /\ exc[c] = "CommandError"
        /\ out[c] = <<>>
        /\ state[d] = "ENCODING_RESPONSE"
        /\ data[d] = Request(NameSET, <<KeyA, Val1>>)
        /\ resp[d] = Integer(1)

IsDelete(d) ==
    IsCommand(d, NameDELETE) /\ Len(ArgsOf(d)) = 1 /\ Hashable(ArgsOf(d)[1])

\* C3: DELETE k returns 1 if and only if k was a key of the store just
\* before, whatever its value; k is absent afterwards and no other key is
\* changed.
C3_DeleteReturnsOneIffPresent ==
    [][\A c \in Conns :
          (Dispatches(c) /\ IsDelete(data[c])) =>
              /\ resp'[c] = Integer(IF ArgsOf(data[c])[1] \in DOMAIN kv THEN 1 ELSE 0)
              /\ DOMAIN kv' = (DOMAIN kv) \ {ArgsOf(data[c])[1]}
              /\ \A x \in DOMAIN kv' : kv'[x] = kv[x]]_vars

\* C4: every response frame is self-delimiting: a decoder that reads the
\* frame of a response followed by further bytes returns after exactly the
\* frame, with the following bytes left.
C4_ResponseFramesSelfDelimiting ==
    \A c \in Conns :
        state[c] = "ENCODING_RESPONSE" =>
            \A tail \in CodecTails :
                /\ handle_request(_write(resp[c]) \o tail).st = "ok"
                /\ handle_request(_write(resp[c]) \o tail).rest = tail

\* C5: decode(encode(v)) is v, for every value v.
C5_RoundTrip ==
    cres # NoRes => (cres.st = "ok" /\ cres.val = cval /\ cres.rest = ctail)

IsGet(d) ==
    IsCommand(d, NameGET) /\ Len(ArgsOf(d)) = 1 /\ Hashable(ArgsOf(d)[1])

IsSet(d) ==
    IsCommand(d, NameSET) /\ Len(ArgsOf(d)) = 2 /\ Hashable(ArgsOf(d)[1])

\* The value of the most recent write of k that no DELETE k and no FLUSH
\* has followed, Null when there is none.
LiveValue(k) ==
    IF \E p \in live : p[1] = k THEN (CHOOSE p \in live : p[1] = k)[2] ELSE Null

\* C6: GET k returns the value of the most recent SET or MSET pair for k
\* that no DELETE k or FLUSH has followed, and Null otherwise, and leaves
\* the store as it is; SET k v returns 1 and leaves v under k.
C6_GetReturnsLastWrite ==
    [][\A c \in Conns :
          Dispatches(c) =>
              /\ IsGet(data[c]) =>
                    /\ state'[c] = "ENCODING_RESPONSE"
                    /\ resp'[c] = LiveValue(ArgsOf(data[c])[1])
                    /\ kv' = kv
              /\ IsSet(data[c]) =>
                    /\ state'[c] = "ENCODING_RESPONSE"
                    /\ resp'[c] = Integer(1)
                    /\ ArgsOf(data[c])[1] \in DOMAIN kv'
                    /\ kv'[ArgsOf(data[c])[1]] = ArgsOf(data[c])[2]]_vars

\* C6, witness: one connection holds the reply to its MSET and the other
\* one's GET a has returned the value that MSET wrote.
C6_Witness ==
    \E c \in Conns : \E d \in Conns \ {c} :
        /\ state[c] = "ENCODING_RESPONSE"
        /\ data[c] = Request(NameGET, <<KeyA>>)
        /\ resp[c] = Val2
        /\ state[d] = "ENCODING_RESPONSE"
        /\ data[d] = Request(NameMSET, <<KeyA, Val2, KeyB, Val1>>)

IsMset(d) ==
    /\ IsCommand(d, NameMSET)
    /\ \A i \in 1..(Len(ArgsOf(d)) \div 2) : Hashable(ArgsOf(d)[2 * i - 1])

\* The pairs of an MSET that name k as their key.
PairsFor(items, k) == {i \in 1..(Len(items) \div 2) : items[2 * i - 1] = k}

LastOf(S) == CHOOSE i \in S : \A j \in S : j <= i

\* C7: MSET with n arguments returns floor(n / 2); each key of a pair holds
\* the value of the last pair that names it; a trailing unpaired argument
\* raises nothing and creates no entry; the other keys are unchanged.
C7_MsetPairwise ==
    [][\A c \in Conns :
          (Dispatches(c) /\ IsMset(data[c])) =>
              /\ state'[c] = "ENCODING_RESPONSE"
              /\ resp'[c] = Integer(Len(ArgsOf(data[c])) \div 2)
              /\ DOMAIN kv' =
                    (DOMAIN kv) \cup
                    {ArgsOf(data[c])[2 * i - 1] : i \in 1..(Len(ArgsOf(data[c])) \div 2)}
              /\ \A x \in DOMAIN kv' :
                    IF PairsFor(ArgsOf(data[c]), x) # {}
                    THEN kv'[x] = ArgsOf(data[c])[2 * LastOf(PairsFor(ArgsOf(data[c]), x))]
                    ELSE kv'[x] = kv[x]]_vars

\* C7, witness: MSET a None b has stored None under a, returned 1 and made
\* no entry for its unpaired argument b.
C7_Witness ==
    /\ state["c1"] = "ENCODING_RESPONSE"
    /\ data["c1"] = Request(NameMSET, <<KeyA, Null, KeyB>>)
    /\ resp["c1"] = Integer(1)
    /\ KeyA \in DOMAIN kv
    /\ kv[KeyA] = Null
    /\ KeyB \notin DOMAIN kv

IsFlush(d) == IsCommand(d, NameFLUSH) /\ Len(ArgsOf(d)) = 0

\* C8: FLUSH returns the number of entries the store held and leaves it
\* empty; a FLUSH that follows a FLUSH with no SET or MSET dispatched in
\* between, by any connection, returns 0.
C8_FlushReturnsCount ==
    [][\A c \in Conns :
          (Dispatches(c) /\ IsFlush(data[c])) =>
              /\ state'[c] = "ENCODING_RESPONSE"
              /\ resp'[c] = Integer(Cardinality(DOMAIN kv))
              /\ kv' = EmptyStore
              /\ flushed => resp'[c] = Integer(0)]_vars

\* C8, witness: both connections hold the reply to a FLUSH; no other
\* command can have been dispatched between the two; the first returned 2
\* and the second 0.
C8_Witness ==
    \E c \in Conns : \E d \in Conns \ {c} :
        /\ state[c] = "ENCODING_RESPONSE"
        /\ data[c] = Request(NameFLUSH, <<>>)
        /\ resp[c] = Integer(2)
        /\ state[d] = "ENCODING_RESPONSE"
        /\ data[d] = Request(NameFLUSH, <<>>)
        /\ resp[d] = Integer(0)

IsMget(d) ==
    /\ IsCommand(d, NameMGET)
    /\ \A i \in 1..Len(ArgsOf(d)) : Hashable(ArgsOf(d)[i])

\* C9: MGET k1 ... kn returns an array of n elements, the i-th the value
\* stored under ki or Null when ki is absent, and leaves the store as it is.
C9_MgetOneSlotPerKey ==
    [][\A c \in Conns :
          (Dispatches(c) /\ IsMget(data[c])) =>
              /\ state'[c] = "ENCODING_RESPONSE"
              /\ resp'[c].t = "list"
              /\ Len(resp'[c].v) = Len(ArgsOf(data[c]))
              /\ \A i \in 1..Len(ArgsOf(data[c])) :
                    resp'[c].v[i] =
                        IF ArgsOf(data[c])[i] \in DOMAIN kv
                        THEN kv[ArgsOf(data[c])[i]] ELSE Null
              /\ kv' = kv]_vars

\* C9, witness: MGET a b a with only a stored has returned a's value in the
\* first and third slots and Null in the second.
C9_Witness ==
    /\ state["c1"] = "ENCODING_RESPONSE"
    /\ data["c1"] = Request(NameMGET, <<KeyA, KeyB, KeyA>>)
    /\ resp["c1"] = Arr(<<KeyB, Null, KeyB>>)

\* The reply the unknown requests are to get, written out.
UnknownReply(d) ==
    IF d = Request(<<"f", "o", "o">>, <<>>)
    THEN Error(<<"U", "n", "r", "e", "c", "o", "g", "n", "i", "z", "e", "d", " ", "c", "o", "m", "m", "a", "n", "d", ":", " ", "F", "O", "O">>)
    ELSE Error(<<"U", "n", "r", "e", "c", "o", "g", "n", "i", "z", "e", "d", " ", "c", "o", "m", "m", "a", "n", "d", ":", " ", "X", "\n", "Y">>)

\* C10: a request whose upper-cased name is no command gets the single
\* response Error("Unrecognized command: X"), X the upper-cased name; the
\* store is unchanged, the connection goes back to awaiting requests, and
\* a valid request that follows on it is answered with no error.
C10_UnknownCommandIsAnswered ==
    [][\A c \in Conns :
          /\ (Dispatches(c) /\ data[c] \in UnknownRequests) =>
                /\ state'[c] = "ENCODING_RESPONSE"
                /\ resp'[c] = UnknownReply(data[c])
                /\ kv' = kv
          /\ (Writes(c) /\ data[c] \in UnknownRequests) =>
                /\ state'[c] = "AWAITING_REQUEST"
                /\ out'[c] = out[c] \o <<"-">> \o resp[c].v \o CRLF
                /\ kv' = kv
          /\ (Dispatches(c) /\ lastErr[c] /\ data[c] \in ValidRequests) =>
                /\ state'[c] = "ENCODING_RESPONSE"
                /\ resp'[c].t # "err"]_vars

\* C10, witness: a connection whose previous response was the error holds
\* the reply 1 to the SET it sent next.
C10_Witness ==
    \E c \in Conns :
        /\ lastErr[c]
        /\ state[c] = "ENCODING_RESPONSE"
        /\ data[c] = Request(NameSET, <<KeyA, Val1>>)
        /\ resp[c] = Integer(1)

\* A decoded request that is no non-empty array.
NotArray(d) == d # NoData /\ (d.t # "list" \/ d.v = <<>>)

\* C11: a decoded request that is no non-empty array is answered with one
\* ErrorValue; the store is unchanged; the connection goes back to awaiting
\* requests and a request that follows on it is answered as usual.
C11_NotArrayIsCommandError ==
    [][\A c \in Conns :
          /\ (Dispatches(c) /\ NotArray(data[c])) =>
                /\ state'[c] = "ENCODING_RESPONSE"
                /\ resp'[c] \in {Error(MsgNotList), Error(MsgMissing)}
                /\ kv' = kv
          /\ (Writes(c) /\ NotArray(data[c])) =>
                /\ state'[c] = "AWAITING_REQUEST"
                /\ out'[c] = out[c] \o <<"-">> \o resp[c].v \o CRLF
                /\ pool' = pool
                /\ kv' = kv
          /\ (Dispatches(c) /\ lastErr[c] /\ data[c] \in GoodRequests) =>
                /\ state'[c] = "ENCODING_RESPONSE"
                /\ resp'[c].t # "err"]_vars

\* C11, witness: after the error reply to one such request the connection
\* holds, with the store still filled, the error reply to an empty array.
C11_Witness ==
    \E c \in Conns :
        /\ lastErr[c]
        /\ state[c] = "ENCODING_RESPONSE"
        /\ data[c] = Arr(<<>>)
        /\ resp[c] = Error(MsgMissing)
        /\ KeyA \in DOMAIN kv

\* The store that the commands dispatched so far leave when they are run
\* one after the other, in the order of their dispatch.
SeqStore(l) == [k \in {p[1] : p \in l} |-> (CHOOSE p \in l : p[1] = k)[2]]

\* C12: the commands of the connections take effect one at a time, in the
\* order of their dispatch: the store is the one that order leaves, an MGET
\* of the two keys sees both pairs of one MSET or neither, and a FLUSH
\* returns the number of entries it removed.
C12_CommandsAreSerialized ==
    [][\A c \in Conns :
          Dispatches(c) =>
              /\ kv = SeqStore(live)
              /\ kv' = SeqStore(live')
              /\ IsMget(data[c]) =>
                    resp'[c] \in { Arr(<<Null, Null>>), Arr(<<Val2, Val1>>),
                                   Arr(<<Val1, Val2>>) }
              /\ IsMget(data[c]) =>
                    resp'[c] = Arr([i \in 1..2 |-> LiveValue(ArgsOf(data[c])[i])])
              /\ IsFlush(data[c]) =>
                    /\ resp'[c] = Integer(Cardinality({p[1] : p \in live}))
                    /\ resp'[c] =
                          Integer(Cardinality(DOMAIN kv) - Cardinality(DOMAIN kv'))]_vars

\* C12, witness: one connection holds the reply to its MGET, which saw both
\* pairs of the first MSET, while the other holds the reply to the second
\* MSET, dispatched after that MGET.
C12_Witness ==
    \E c \in Conns : \E d \in Conns \ {c} :
        /\ state[c] = "ENCODING_RESPONSE"
        /\ data[c] = Request(NameMGET, <<KeyA, KeyB>>)
        /\ resp[c] = Arr(<<Val2, Val1>>)
        /\ state[d] = "ENCODING_RESPONSE"
        /\ data[d] = Request(NameMSET, <<KeyA, Val1, KeyB, Val2>>)
        /\ kv[KeyA] = Val1

\* The connections whose handler runs: accepted and not yet CLOSED.
Active == {c \in DOMAIN state : state[c] \notin {"WAITING", "CLOSED"}}

Waiting == {c \in DOMAIN state : state[c] = "WAITING"}

\* C13: at most MaxClients handlers are active at any moment, and while
\* MaxClients are active a connection that waits stays waiting, with
\* nothing of it read, dispatched or answered.
C13_ActiveAtMostMaxClients ==
    [][/\ Cardinality(Active) <= MaxClients
       /\ Cardinality(Active') <= MaxClients
       /\ \A c \in Waiting :
             /\ data[c] = NoData /\ resp[c] = NoData /\ out[c] = <<>>
             /\ Cardinality(Active) = MaxClients =>
                   (c \in Waiting' /\ data'[c] = NoData /\ out'[c] = <<>>)]_vars

\* C13, witness: MaxClients handlers are at work and a connection that has
\* sent its request waits.
C13_Witness ==
    /\ Cardinality(Active) = MaxClients
    /\ \E c \in Waiting : inbuf[c] = _write(Request(NameGET, <<KeyA>>))
    /\ \E d \in Active : state[d] = "ENCODING_RESPONSE"

\* C14: a handler that ends, however it ends, gives its slot back: the
\* slots taken are those of the active connections; and whenever a
\* connection waits while fewer than MaxClients are active, waiting
\* connections are eventually admitted, until none waits or MaxClients are
\* active (the active connections grow in number, and the waiting ones
\* shrink, by an admission only).
C14_EveryEndReleasesItsSlot ==
    /\ [](pool = Active)
    /\ (Waiting # {} /\ Cardinality(Active) < MaxClients)
          ~> (Waiting = {} \/ Cardinality(Active) = MaxClients)

\* C14, witness: a handler was ended by an uncaught TypeError, another by
\* the bad-request error or a disconnect, and the connection that had to
\* wait for a slot holds the reply to its request.
C14_Witness ==
    \E c \in DOMAIN state : \E d \in DOMAIN state \ {c} :
        /\ state[c] = "CLOSED" /\ exc[c] = "TypeError"
        /\ state[d] = "ENCODING_RESPONSE"
        /\ \A x \in DOMAIN state \ {c, d} :
              state[x] = "CLOSED" /\ exc[x] \in {"CommandError", "Disconnect"}
        /\ Waiting = {}
        /\ pool = {d}

\* The bytes of the frames of q, one after the other.
RECURSIVE Stream(_)
Stream(q) == IF q = <<>> THEN <<>> ELSE Head(q) \o Stream(Tail(q))

\* C15: a handler reads a request only when it holds none and has written
\* the reply to the one before; the request it reads, dispatches and
\* answers is the oldest one its peer sent that is not answered yet, the
\* later ones left unread; a GET is evaluated on the store of its
\* dispatch; each write puts one reply behind the replies written before.
C15_OneCyclePerRequestInOrder ==
    [][\A c \in Conns :
          /\ (Reads(c) /\ pending[c] # <<>>) =>
                /\ data[c] = NoData /\ resp[c] = NoData
                /\ state'[c] = "DISPATCHING"
                /\ _write(data'[c]) = Head(pending[c])
                /\ inbuf'[c] = Stream(Tail(pending[c]))
          /\ Dispatches(c) =>
                /\ _write(data[c]) = Head(pending[c])
                /\ state'[c] = "ENCODING_RESPONSE"
                /\ IsGet(data[c]) => resp'[c] = LiveValue(ArgsOf(data[c])[1])
                /\ inbuf'[c] = inbuf[c]
          /\ Writes(c) =>
                /\ _write(data[c]) = Head(pending[c])
                /\ pending'[c] = Tail(pending[c])
                /\ out'[c] = out[c] \o _write(resp[c])
                /\ inbuf'[c] = inbuf[c]]_vars

\* C15, witness: a peer has pipelined SET a 1 and GET a; the reply to the
\* SET is written, the other connection's DELETE a was dispatched next, and
\* the GET, dispatched after it, has returned Null.
C15_Witness ==
    \E c \in Conns : \E d \in Conns \ {c} :
        /\ pending[c] = <<_write(Request(NameGET, <<KeyA>>))>>
        /\ out[c] = _write(Integer(1))
        /\ state[c] = "ENCODING_RESPONSE"
        /\ data[c] = Request(NameGET, <<KeyA>>)
        /\ resp[c] = Null
        /\ state[d] = "ENCODING_RESPONSE"
        /\ data[d] = Request(NameDELETE, <<KeyA>>)
        /\ resp[d] = Integer(1)

\* The request is a text name followed by arguments.
Named(d, names) == d.t = "list" /\ d.v # <<>> /\ d.v[1].t = "str" /\ d.v[1].v \in names

\* C16: set, Set and SET all store, get and GET all look up; the key and
\* the value are taken as sent: a SET leaves its value, letter for letter,
\* under its key and every other key, the one that differs in case
\* included, as it was; a GET returns what was last stored under the very
\* key it names.
C16_OnlyTheNameIsCaseFolded ==
    [][\A c \in Conns :
          Dispatches(c) =>
              /\ Named(data[c], SetNames) =>
                    /\ resp'[c] = Integer(1)
                    /\ DOMAIN kv' = (DOMAIN kv) \cup {data[c].v[2]}
                    /\ kv'[data[c].v[2]] = data[c].v[3]
                    /\ \A x \in (DOMAIN kv) \ {data[c].v[2]} : kv'[x] = kv[x]
              /\ Named(data[c], GetNames) =>
                    /\ resp'[c] = LiveValue(data[c].v[2])
                    /\ kv' = kv]_vars

\* C16, witness: k and K are two entries, and get k has returned the value
\* stored under k, in the case it was sent.
C16_Witness ==
    /\ state["c1"] = "ENCODING_RESPONSE"
    /\ data["c1"] = Request(<<"g", "e", "t">>, <<KeyLower>>)
    /\ resp["c1"] = ValMixed
    /\ KeyUpper \in DOMAIN kv
    /\ kv[KeyUpper] = ValLower

\* A decoded request that is a non-empty array with a first element that is
\* no text.
NotText(d) == d # NoData /\ d.t = "list" /\ d.v # <<>> /\ d.v[1].t # "str"

\* C17: a non-empty array whose first element is no text is answered with
\* one ErrorValue; the store is unchanged and the connection stays open.
C17_NotTextIsCommandError ==
    [][\A c \in Conns :
          (Dispatches(c) /\ NotText(data[c])) =>
              /\ state'[c] = "ENCODING_RESPONSE"
              /\ resp'[c].t = "err"
              /\ kv' = kv]_vars

\* C18: when the peer has closed in the middle of a frame, the read of the
\* incomplete request ends the handler, nothing being dispatched, and the
\* store holds nothing but what whole frames announced.
C18_CutFrameIsNotDispatched ==
    [][\A c \in Conns :
          (Reads(c) /\ inbuf[c] \in CutFrames) =>
              /\ state'[c] = "CLOSED"
              /\ kv' = kv
              /\ \A k \in DOMAIN kv' : k = KeyA /\ kv'[k] = Val12]_vars

\* C19: a request that is answered with an ErrorValue, or that ends its
\* handler with no response, leaves the store as it was.
C19_FailedRequestLeavesStore ==
    [][\A c \in Conns :
          ((Dispatches(c) \/ Reads(c))
              /\ (state'[c] = "CLOSED" \/ resp'[c].t = "err")) => kv' = kv]_vars

\* C20: the write of a response never raises and never ends the handler:
\* the frame of the response is written and the handler awaits the next
\* request, in its slot.
C20_ResponsesAreEncodable ==
    [][\A c \in Conns :
          Writes(c) =>
              /\ state'[c] = "AWAITING_REQUEST"
              /\ exc'[c] = ""
              /\ c \in pool'
              /\ out'[c] = out[c] \o _write(resp[c])]_vars

\* C20, witness: the reply to MGET a b 1, an array that holds the dicts
\* stored under a and b and a Null, has been written.
C20_Witness ==
    /\ state["c1"] = "AWAITING_REQUEST"
    /\ out["c1"] =
          _write(Arr(<<Dict(<<<<KeyA, Arr(<<>>)>>>>),
                       Dict(<<<<Null, Error(<<>>)>>>>), Null>>))

=============================================================================
